---- MODULE Spec2Model ----
(***************************************************************************)
(* VibeJudge: the text analysis of models/analyzer.py (ContentAnalyzer),   *)
(* the singleton getters, the DatabaseManager of database/db_manager.py,   *)
(* the uploader of app/components/uploader.py and the script runs of       *)
(* app/main.py.  Six specifications share the variables: Spec (the         *)
(* analyzer under a caller), SpecSingletons (the getters called one after  *)
(* another), SpecThreads (the getters called by threads at the same time), *)
(* SpecDb (the database under a caller of its methods), SpecUploader (the  *)
(* uploader's functions on one file) and SpecApp (main(), one script run   *)
(* after another).                                                         *)
(*                                                                         *)
(* Texts are strings.  Percentages are kept in tenths of a percent (the    *)
(* code rounds them to one decimal: 33.3 is 333, 100.0 is 1000) and        *)
(* overall_score in hundredths (the code rounds it to two decimals: -1.0   *)
(* is -100).  A classifier output (softmax over negative, neutral,         *)
(* positive) is a triple of naturals that sums to Scale.                   *)
(*                                                                         *)
(* self.nlp (spaCy) and the RoBERTa classifier are external: what they     *)
(* yield for the text under analysis is the input doc_sents, one entry per *)
(* sentence of the text, in order: the classifier's distribution for that  *)
(* sentence, or the fact that the classifier call raises on it.  The       *)
(* segmenter itself has no failure mode (an empty text has no sentence, a  *)
(* non-empty one has at least one).                                        *)
(*                                                                         *)
(* In main() the transcriber, SentimentAnalyzer and ToneDetector are       *)
(* external too: a stage returns a result or raises.  The database either  *)
(* carries out the statements of a method call or raises inside it.        *)
(***************************************************************************)
EXTENDS Integers, Sequences, FiniteSets, TLC

VARIABLES
    bias_lexicon,   \* self.bias_lexicon: categories in dict order, each with its phrases
    text,           \* the text the caller passes to the analyze_* methods
    doc_sents,      \* per sentence of text: the outcome of the classifier call on it
    sentiment,      \* the outcome of the latest analyze_sentiment(text)
    bias,           \* the outcome of the latest analyze_bias(text)
    tone,           \* the outcome of the latest analyze_tone(text)
    earlier,        \* the text whose bias and tone were analysed before this one,
                    \* with the outcomes of the two calls
    instances,      \* _analyzer_instance, _transcriber_instance, _db_instance (0: None)
    calls,          \* per getter: the calls made so far and what they did
    podcasts,       \* table podcasts: the row of each podcast id
    analyses,       \* table analyses: its rows, the i-th with id i
    bias_flags,     \* table bias_flags: its rows in insertion order
    db_call,        \* the latest call of a DatabaseManager method and what it returned
    session,        \* st.session_state of the browser session
    run,            \* the script run of main() in progress: position, locals, display
    uploader,       \* the uploader's functions called on a file, and what they gave
    upload_dir,     \* the podcast files in the upload directory
    threads         \* the session threads inside a getter: position and locals

analyzer_vars == <<bias_lexicon, text, doc_sents, sentiment, bias, tone, earlier>>
singleton_vars == <<instances, calls>>
db_vars == <<podcasts, analyses, bias_flags, db_call>>
app_vars == <<session, run>>
upload_vars == <<uploader, upload_dir>>

vars == <<analyzer_vars, singleton_vars, db_vars, app_vars, upload_vars, threads>>

----------------------------------------------------------------------------
(* Bounds of the model *)

MaxChunks == 2      \* an initial text is made of at most this many chunks
MaxSents == 3       \* at most this many sentences in a text
MaxBeyond == 2      \* a long text has at most this many sentences beyond the limit
Scale == 1000       \* granularity of a classifier probability (p = k / Scale)

----------------------------------------------------------------------------
(* Python built-ins used by the code *)

UpperCase == "ABCDEFGHIJKLMNOPQRSTUVWXYZ"
LowerCase == "abcdefghijklmnopqrstuvwxyz"

UpperChars == {SubSeq(UpperCase, i, i) : i \in 1..Len(UpperCase)}

LowerOf ==
    [c \in UpperChars |->
        LET i == CHOOSE j \in 1..Len(UpperCase) : SubSeq(UpperCase, j, j) = c
        IN  SubSeq(LowerCase, i, i)]

\* str.lower() of one character
lower_char(c) == IF c \in UpperChars THEN LowerOf[c] ELSE c

RECURSIVE lower_from(_, _)
lower_from(s, i) ==
    IF i > Len(s) THEN "" ELSE lower_char(SubSeq(s, i, i)) \o lower_from(s, i + 1)

\* str.lower()
lower(s) == lower_from(s, 1)

RECURSIVE count_from(_, _, _)
count_from(s, sub, i) ==
    IF i + Len(sub) - 1 > Len(s) THEN 0
    ELSE IF SubSeq(s, i, i + Len(sub) - 1) = sub
         THEN 1 + count_from(s, sub, i + Len(sub))
         ELSE count_from(s, sub, i + 1)

Letters == {SubSeq(LowerCase, i, i) : i \in 1..Len(LowerCase)} \cup UpperChars

\* no letter at position i of s
NoLetterAt(s, i) == i < 1 \/ i > Len(s) \/ SubSeq(s, i, i) \notin Letters

RECURSIVE count_words_from(_, _, _)
count_words_from(s, sub, i) ==
    IF i + Len(sub) - 1 > Len(s) THEN 0
    ELSE IF /\ SubSeq(s, i, i + Len(sub) - 1) = sub
            /\ NoLetterAt(s, i - 1)
            /\ NoLetterAt(s, i + Len(sub))
         THEN 1 + count_words_from(s, sub, i + Len(sub))
         ELSE count_words_from(s, sub, i + 1)

\* only occurrences that are whole words counted
count_whole_words(s, sub) == count_words_from(s, sub, 1)

\* str.count(sub): occurrences found scanning left to right, the scan resuming
\* after the end of each occurrence found
count(s, sub) == count_from(s, sub, 1)

min(a, b) == IF a < b THEN a ELSE b

\* rounding replaced by truncation towards minus infinity
round_floor(num, den) == num \div den

\* round(): to the nearest integer of num / den (den > 0), a tie to the even one
round(num, den) ==
    LET q == num \div den
        r == num - q * den
    IN  IF 2 * r < den THEN q
        ELSE IF 2 * r > den THEN q + 1
        ELSE IF q % 2 = 0 THEN q ELSE q + 1

----------------------------------------------------------------------------
(* ContentAnalyzer.__init__ *)

BiasLexicon ==
    << [category |-> "political_left",
        phrases  |-> <<"radical left", "socialist agenda", "woke mob", "comrade">>],
       [category |-> "political_right",
        phrases  |-> <<"radical right", "fascist", "bootlicker", "maga">>],
       [category |-> "absolutist",
        phrases  |-> <<"always", "never", "everyone", "nobody", "undeniably">>],
       [category |-> "aggressive",
        phrases  |-> <<"stupid", "idiot", "shut up", "disgusting", "traitor">>] >>

----------------------------------------------------------------------------
(* ContentAnalyzer.analyze_bias *)

NoFlags == [score |-> 0, flags |-> <<>>]

RECURSIVE scan_phrases_per_occurrence(_, _, _, _, _)
\* one flag appended for each occurrence instead of one for the phrase
scan_phrases_per_occurrence(lowered, category, phrases, i, acc) ==
    IF i > Len(phrases) THEN acc
    ELSE LET phrase == phrases[i]
             n == count(lowered, phrase)
             flag == [phrase |-> phrase, category |-> category, count |-> n]
         IN  scan_phrases_per_occurrence(lowered, category, phrases, i + 1,
                 [score |-> acc.score + n * 10,
                  flags |-> acc.flags \o [k \in 1..n |-> flag]])

RECURSIVE scan_phrases_flag_all(_, _, _, _, _)
\* a flag appended for every phrase, found or not
scan_phrases_flag_all(lowered, category, phrases, i, acc) ==
    IF i > Len(phrases) THEN acc
    ELSE LET phrase == phrases[i]
             n == count(lowered, phrase)
         IN  scan_phrases_flag_all(lowered, category, phrases, i + 1,
                 [score |-> acc.score + n * 10,
                  flags |-> Append(acc.flags,
                              [phrase |-> phrase, category |-> category, count |-> n])])

RECURSIVE scan_phrases_overwrite(_, _, _, _, _)
\* the score assigned for each phrase found instead of added to
scan_phrases_overwrite(lowered, category, phrases, i, acc) ==
    IF i > Len(phrases) THEN acc
    ELSE LET phrase == phrases[i]
             n == count(lowered, phrase)
         IN  scan_phrases_overwrite(lowered, category, phrases, i + 1,
                 IF n > 0
                 THEN [score |-> n * 10,
                       flags |-> Append(acc.flags,
                                   [phrase |-> phrase, category |-> category, count |-> n])]
                 ELSE acc)

RECURSIVE scan_phrases(_, _, _, _, _)
\* for phrase in phrases, from phrases[i] on, acc being the running score and the
\* flags so far; lowered is text.lower(), which the code evaluates anew for each
\* phrase and which is the same string each time
scan_phrases(lowered, category, phrases, i, acc) ==
    IF i > Len(phrases) THEN acc
    ELSE LET phrase == phrases[i]
             n == count(lowered, phrase)
         IN  scan_phrases(lowered, category, phrases, i + 1,
                 IF n > 0
                 THEN [score |-> acc.score + n * 10,
                       flags |-> Append(acc.flags,
                                   [phrase |-> phrase, category |-> category, count |-> n])]
                 ELSE acc)

RECURSIVE scan_lexicon(_, _, _, _)
\* for category, phrases in self.bias_lexicon.items()
scan_lexicon(lowered, lexicon, k, acc) ==
    IF k > Len(lexicon) THEN acc
    ELSE scan_lexicon(lowered, lexicon, k + 1,
             scan_phrases(lowered, lexicon[k].category, lexicon[k].phrases, 1, acc))

\* the thresholds taken as exclusive lower bounds
bias_level_exclusive(final_score) ==
    IF final_score <= 20 THEN "Low"
    ELSE IF final_score <= 50 THEN "Moderate"
    ELSE "High"

bias_level(final_score) ==
    IF final_score < 20 THEN "Low"
    ELSE IF final_score < 50 THEN "Moderate"
    ELSE "High"

\* the cap forgotten
final_uncapped(score) == score

final_of(score) == min(score, 100)

\* the dictionary analyze_bias returns
bias_of(t, lexicon) ==
    LET lowered == lower(t)
        scanned == scan_lexicon(lowered, lexicon, 1, NoFlags)
        final_score == final_of(scanned.score)
    IN  [score       |-> final_score,
         level       |-> bias_level(final_score),
         flags_count |-> Len(scanned.flags),
         flags       |-> scanned.flags]

----------------------------------------------------------------------------
(* ContentAnalyzer.analyze_tone *)

tone_of(t) ==
    [dominant_tone  |-> "Neutral",
     calm_pct       |-> 500,
     excited_pct    |-> 100,
     aggressive_pct |-> 0]

----------------------------------------------------------------------------
(* ContentAnalyzer.analyze_sentiment *)

SentenceLimit == 50

Labels == <<"negative", "neutral", "positive">>

EmptyDict == [k \in {} |-> 0]

ZeroSentiment ==
    [positive_pct |-> 0, neutral_pct |-> 0, negative_pct |-> 0, overall_score |-> 0]

\* the slice forgotten: every sentence is classified
take_all(seq, n) == seq

\* sentences[:n]
take(seq, n) == SubSeq(seq, 1, min(n, Len(seq)))

RECURSIVE sum_probs(_, _)
\* the sum over the sentences of the probability of label k
sum_probs(outs, k) ==
    IF outs = <<>> THEN 0 ELSE Head(outs).probs[k] + sum_probs(Tail(outs), k)

\* np.mean(scores, axis=0) and the rounded dictionary built from it
aggregate(outs) ==
    LET n == Len(outs)
        neg == sum_probs(outs, 1)
        neu == sum_probs(outs, 2)
        pos == sum_probs(outs, 3)
    IN  [negative_pct  |-> round(1000 * neg, n * Scale),
         neutral_pct   |-> round(1000 * neu, n * Scale),
         positive_pct  |-> round(1000 * pos, n * Scale),
         overall_score |-> round(100 * (pos - neg), n * Scale)]

\* the test for zero sentences left out: the mean of no scores is a scalar nan,
\* indexing it raises and the except branch returns the empty dictionary
sentiment_of_unguarded(sents) ==
    LET analysed == take(sents, SentenceLimit)
        raising == {i \in 1..Len(analysed) : ~analysed[i].ok}
    IN  IF sents = <<>> THEN [value |-> EmptyDict, invoked |-> 0]
        ELSE IF raising # {}
        THEN [value |-> EmptyDict,
              invoked |-> CHOOSE i \in raising : \A j \in raising : i <= j]
        ELSE [value |-> aggregate(analysed), invoked |-> Len(analysed)]

\* what analyze_sentiment returns, and how many classifier calls it made
sentiment_of(sents) ==
    IF sents = <<>>
    THEN [value |-> ZeroSentiment, invoked |-> 0]
    ELSE LET analysed == take(sents, SentenceLimit)
             raising == {i \in 1..Len(analysed) : ~analysed[i].ok}
         IN  IF raising # {}
             THEN \* the except branch: the loop stops at the first call that raises
                  [value |-> EmptyDict,
                   invoked |-> CHOOSE i \in raising : \A j \in raising : i <= j]
             ELSE [value |-> aggregate(analysed), invoked |-> Len(analysed)]

----------------------------------------------------------------------------
(* The inputs *)

Chunks ==
    { "radical left socialist agenda", "Whenever magazine ",
      "Maga maga MAGA ", "never Never whenever never NEVER ",
      "idiot Idiot, IDIOT! idiot idiot idiot ",
      "everyoneveryone", "the weather is mild. " }

RECURSIVE TextsOf(_)
\* the texts made of at most n chunks
TextsOf(n) ==
    IF n = 0 THEN {""}
    ELSE LET S == TextsOf(n - 1) IN S \cup {t \o c : t \in S, c \in Chunks}

Texts == TextsOf(MaxChunks)

\* the texts a caller moves on to
NextTexts == {"", "the weather is mild. ", "Maga maga MAGA ", "never Never whenever never NEVER "}

Raises == [ok |-> FALSE, probs |-> <<0, 0, 0>>]

Yields(p) == [ok |-> TRUE, probs |-> p]

Third == Scale \div 3

\* classifier outcomes on one sentence
Outcomes ==
    { Yields(<<Scale, 0, 0>>), Yields(<<0, 0, Scale>>), Yields(<<1, 1, Scale - 2>>),
      Yields(<<Third, Third, Scale - 2 * Third>>), Raises }

RECURSIVE SentsOf(_)
\* the non-empty sequences of at most n outcomes
SentsOf(n) ==
    IF n = 0 THEN {}
    ELSE LET S == SentsOf(n - 1)
         IN  {<<o>> : o \in Outcomes} \cup S \cup {Append(s, o) : s \in S, o \in Outcomes}

\* the segmenter and classifier on a text of which only the wording matters
plain_sents(t) == IF t = "" THEN <<>> ELSE <<Yields(<<0, Scale, 0>>)>>

\* the sentences of a long text up to the last two the limit lets through
LongStart == [i \in 1..(SentenceLimit - 2) |-> Yields(<<0, Scale, 0>>)]

\* classifier outcomes on the sentences around the limit
LongOutcomes == { Yields(<<Scale, 0, 0>>), Yields(<<0, 0, Scale>>), Raises }

RECURSIVE LongEndsOf(_)
\* the non-empty sequences of at most n of these outcomes
LongEndsOf(n) ==
    IF n = 0 THEN {}
    ELSE LET S == LongEndsOf(n - 1)
         IN  {<<o>> : o \in LongOutcomes} \cup S
             \cup {Append(s, o) : s \in S, o \in LongOutcomes}

\* texts of SentenceLimit - 1 to SentenceLimit + MaxBeyond sentences
LongSents == {LongStart \o e : e \in LongEndsOf(2 + MaxBeyond)}

Inputs ==
    {<<t, plain_sents(t)>> : t \in Texts}
    \cup {<<"the weather is mild. ", s>> : s \in SentsOf(MaxSents)}
    \cup {<<"the weather is mild. ", s>> : s \in LongSents}

----------------------------------------------------------------------------
(* The process at start: no singleton built, an empty database, a new session *)

\* None, where the other values are dictionaries
None == [none |-> TRUE]

\* None, where the other values are strings
NoneStr == "None"

\* None, where the other values are row ids (cursor.lastrowid is at least 1)
NoneId == 0

Kinds == {"analyzer", "transcriber", "db"}

\* the module globals before any getter is called
NoInstances == [k \in Kinds |-> 0]

NoCalls ==
    [k \in Kinds |->
        [made |-> 0, constructed |-> 0, reconstructed |-> 0, handed |-> {},
         latest |-> "none"]]

NoCall == [made |-> 0, method |-> "none"]

\* no script run of main() yet: no upload, no analysis run
NoRun ==
    [pc |-> "idle", uploads |-> 0, runs |-> 0, podcast |-> EmptyDict,
     locals |-> EmptyDict, log |-> <<>>, shown |-> {}, error |-> "None"]

SingletonsAtStart ==
    /\ instances = NoInstances
    /\ calls = NoCalls

DatabaseAtStart ==
    /\ podcasts = EmptyDict
    /\ analyses = <<>>
    /\ bias_flags = <<>>
    /\ db_call = NoCall

NotCalled == [outcome |-> "none"]

Returned(v) == [outcome |-> "returned", value |-> v]

\* the uploader's three functions, none called yet
NoUploader ==
    [file |-> None, validate_audio_file |-> NotCalled,
     save_uploaded_file |-> NotCalled, render_upload_section |-> NotCalled]

UploaderAtStart ==
    /\ uploader = NoUploader
    /\ upload_dir = {}

NumThreads == 2     \* the session threads that call a getter at the same time

Threads == 1..NumThreads

\* a thread that has not called a getter
NoThread == [pc |-> "idle", kind |-> "none", built |-> 0, result |-> 0]

ThreadsAtStart == threads = [t \in Threads |-> NoThread]

SessionAtStart ==
    /\ session = EmptyDict
    /\ run = NoRun

----------------------------------------------------------------------------
(* The analyzer under a caller that analyses one text after another *)

Init ==
    /\ bias_lexicon = BiasLexicon
    /\ \E in \in Inputs : text = in[1] /\ doc_sents = in[2]
    /\ sentiment = NotCalled
    /\ bias = NotCalled
    /\ tone = NotCalled
    /\ earlier = [text |-> "", bias |-> NotCalled, tone |-> NotCalled]
    /\ SingletonsAtStart
    /\ DatabaseAtStart
    /\ SessionAtStart
    /\ UploaderAtStart
    /\ ThreadsAtStart

analyze_sentiment ==
    /\ LET r == sentiment_of(doc_sents)
       IN  sentiment' = [outcome |-> "returned", value |-> r.value, invoked |-> r.invoked]
    /\ UNCHANGED <<bias_lexicon, text, doc_sents, bias, tone, earlier, threads>>
    /\ UNCHANGED <<singleton_vars, db_vars, app_vars, upload_vars, threads>>

\* a call that uses up the lexicon's first category
analyze_bias_consuming ==
    /\ bias' = Returned(bias_of(text, bias_lexicon))
    /\ bias_lexicon' = IF bias_lexicon = <<>> THEN <<>> ELSE Tail(bias_lexicon)
    /\ UNCHANGED <<text, doc_sents, sentiment, tone, earlier, threads>>
    /\ UNCHANGED <<singleton_vars, db_vars, app_vars, upload_vars, threads>>

analyze_bias ==
    /\ bias' = Returned(bias_of(text, bias_lexicon))
    /\ UNCHANGED <<bias_lexicon, text, doc_sents, sentiment, tone, earlier, threads>>
    /\ UNCHANGED <<singleton_vars, db_vars, app_vars, upload_vars, threads>>

analyze_tone ==
    /\ tone' = Returned(tone_of(text))
    /\ UNCHANGED <<bias_lexicon, text, doc_sents, sentiment, bias, earlier, threads>>
    /\ UNCHANGED <<singleton_vars, db_vars, app_vars, upload_vars, threads>>

\* the caller moves on to another text
next_input ==
    /\ \E t \in NextTexts :
          /\ text' = t
          /\ doc_sents' = plain_sents(t)
    /\ earlier' = IF bias.outcome = "returned" /\ tone.outcome = "returned"
                   THEN [text |-> text, bias |-> bias, tone |-> tone]
                   ELSE earlier
    /\ sentiment' = NotCalled
    /\ bias' = NotCalled
    /\ tone' = NotCalled
    /\ UNCHANGED bias_lexicon
    /\ UNCHANGED <<singleton_vars, db_vars, app_vars, upload_vars, threads>>

Next ==
    \/ analyze_sentiment
    \/ analyze_bias
    \/ analyze_tone
    \/ next_input

Spec == Init /\ [][Next]_vars

----------------------------------------------------------------------------
(* The singleton getters get_analyzer, get_transcriber and get_db *)

MaxCalls == 3       \* at most this many calls of each getter

\* the getter always constructs
get_instance_uncached(cur, ctor_ok, fresh) ==
    IF ctor_ok
    THEN [instance |-> fresh, ran |-> TRUE, raised |-> FALSE, result |-> fresh]
    ELSE [instance |-> cur, ran |-> TRUE, raised |-> TRUE, result |-> 0]

(* if _instance is None: _instance = Class(); return _instance.  cur is the
   global (0 for None), ctor_ok tells whether the constructor, if run, returns
   or raises, fresh is the object it would build. *)
get_instance(cur, ctor_ok, fresh) ==
    IF cur = 0
    THEN IF ctor_ok
         THEN [instance |-> fresh, ran |-> TRUE, raised |-> FALSE, result |-> fresh]
         ELSE [instance |-> 0, ran |-> TRUE, raised |-> TRUE, result |-> 0]
    ELSE [instance |-> cur, ran |-> FALSE, raised |-> FALSE, result |-> cur]

\* one call of the getter of kind k
call_getter(k) ==
    /\ calls[k].made < MaxCalls
    /\ \E ctor_ok \in BOOLEAN :
          LET c == calls[k]
              r == get_instance(instances[k], ctor_ok, c.constructed + 1)
          IN  /\ instances' = [instances EXCEPT ![k] = r.instance]
              /\ calls' = [calls EXCEPT ![k] =
                    [made          |-> c.made + 1,
                     constructed   |-> c.constructed + (IF r.ran THEN 1 ELSE 0),
                     reconstructed |-> c.reconstructed
                                       + (IF r.ran /\ instances[k] # 0 THEN 1 ELSE 0),
                     handed        |-> IF r.raised THEN c.handed
                                       ELSE c.handed \cup {r.result},
                     latest        |-> IF r.raised THEN "raised" ELSE "returned"]]
    /\ UNCHANGED <<analyzer_vars, db_vars, app_vars, upload_vars, threads>>

get_analyzer == call_getter("analyzer")

get_transcriber == call_getter("transcriber")

get_db == call_getter("db")

\* nothing is being analysed
AnalyzerAtRest ==
    /\ bias_lexicon = BiasLexicon
    /\ text = ""
    /\ doc_sents = <<>>
    /\ sentiment = NotCalled
    /\ bias = NotCalled
    /\ tone = NotCalled
    /\ earlier = [text |-> "", bias |-> NotCalled, tone |-> NotCalled]

InitSingletons ==
    /\ AnalyzerAtRest
    /\ SingletonsAtStart
    /\ DatabaseAtStart
    /\ SessionAtStart
    /\ UploaderAtStart
    /\ ThreadsAtStart

NextSingletons ==
    \/ get_analyzer
    \/ get_transcriber
    \/ get_db

SpecSingletons == InitSingletons /\ [][NextSingletons]_vars

----------------------------------------------------------------------------
(* The getters under session threads that run at the same time: the steps of
   `if _instance is None: _instance = Class()` and `return _instance`, between
   which the interpreter may switch threads.  The object a thread builds is
   named by the thread. *)

\* the thread calls the getter of kind k
getter_enter(t, k) ==
    /\ threads[t].pc = "idle"
    /\ threads' = [threads EXCEPT ![t].pc = "test", ![t].kind = k]
    /\ UNCHANGED <<analyzer_vars, singleton_vars, db_vars, app_vars, upload_vars>>

\* if _instance is None
getter_test(t) ==
    /\ threads[t].pc = "test"
    /\ threads' = [threads EXCEPT ![t].pc =
                      IF instances[threads[t].kind] = 0 THEN "construct" ELSE "return"]
    /\ UNCHANGED <<analyzer_vars, singleton_vars, db_vars, app_vars, upload_vars>>

\* Class(): the constructor returns the new object, or raises
getter_construct(t) ==
    /\ threads[t].pc = "construct"
    /\ \E ctor_ok \in BOOLEAN :
          threads' = [threads EXCEPT ![t] =
                        IF ctor_ok THEN [@ EXCEPT !.pc = "store", !.built = t]
                                   ELSE [@ EXCEPT !.pc = "raised"]]
    /\ UNCHANGED <<analyzer_vars, singleton_vars, db_vars, app_vars, upload_vars>>

\* _instance = ...: the global is assigned
getter_store(t) ==
    /\ threads[t].pc = "store"
    /\ instances' = [instances EXCEPT ![threads[t].kind] = threads[t].built]
    /\ threads' = [threads EXCEPT ![t].pc = "return"]
    /\ UNCHANGED <<calls, analyzer_vars, db_vars, app_vars, upload_vars>>

\* return _instance: the global is read and handed to the caller
getter_return(t) ==
    /\ threads[t].pc = "return"
    /\ threads' = [threads EXCEPT ![t].pc = "returned",
                                  ![t].result = instances[threads[t].kind]]
    /\ UNCHANGED <<analyzer_vars, singleton_vars, db_vars, app_vars, upload_vars>>

InitThreads ==
    /\ AnalyzerAtRest
    /\ SingletonsAtStart
    /\ DatabaseAtStart
    /\ SessionAtStart
    /\ UploaderAtStart
    /\ ThreadsAtStart

NextThreads ==
    \E t \in Threads :
        \/ \E k \in Kinds : getter_enter(t, k)
        \/ getter_test(t)
        \/ getter_construct(t)
        \/ getter_store(t)
        \/ getter_return(t)

SpecThreads == InitThreads /\ [][NextThreads]_vars

----------------------------------------------------------------------------
(* DatabaseManager: the tables and the methods that write and read them *)

MaxDbCalls == 3     \* at most this many calls of DatabaseManager methods

\* d.get(key, default)
get(d, key, default) == IF key \in DOMAIN d THEN d[key] ELSE default

\* the id column of podcasts is the key of the table: a second row with the id
\* of an existing one is refused
violates_key(tbl, podcast_id) == podcast_id \in DOMAIN tbl

\* an existing row with the id is replaced (INSERT OR REPLACE)
insert_podcast_replacing(tbl, podcast_id, filename, original_filename, file_size, file_path, duration, db_ok) ==
    IF db_ok
    THEN [returns |-> TRUE,
          podcasts |-> (podcast_id :>
              [filename |-> filename, original_filename |-> original_filename,
               file_size |-> file_size, file_path |-> file_path,
               duration |-> duration, status |-> "uploaded"]) @@ tbl]
    ELSE [returns |-> FALSE, podcasts |-> tbl]

(* DatabaseManager.insert_podcast: the INSERT and the commit, True; any exception,
   False.  A row holds the columns the code writes (upload_date, the time of the
   call, left aside); db_ok tells whether the database carries out the statement. *)
insert_podcast(tbl, podcast_id, filename, original_filename, file_size, file_path, duration, db_ok) ==
    IF db_ok /\ ~violates_key(tbl, podcast_id)
    THEN [returns |-> TRUE,
          podcasts |-> tbl @@ (podcast_id :>
              [filename |-> filename, original_filename |-> original_filename,
               file_size |-> file_size, file_path |-> file_path,
               duration |-> duration, status |-> "uploaded"])]
    ELSE [returns |-> FALSE, podcasts |-> tbl]

\* the same method without the WHERE clause
update_podcast_status_everywhere(tbl, podcast_id, status, error_message, db_ok) ==
    IF db_ok
    THEN [returns |-> TRUE,
          podcasts |-> [id \in DOMAIN tbl |->
                           [status |-> status, error_message |-> error_message] @@ tbl[id]]]
    ELSE [returns |-> FALSE, podcasts |-> tbl]

\* DatabaseManager.update_podcast_status: UPDATE ... WHERE id = ?, which is no
\* error when no row has the id
update_podcast_status(tbl, podcast_id, status, error_message, db_ok) ==
    IF db_ok
    THEN [returns |-> TRUE,
          podcasts |-> IF podcast_id \in DOMAIN tbl
                       THEN [tbl EXCEPT ![podcast_id] =
                               [status |-> status, error_message |-> error_message] @@ @]
                       ELSE tbl]
    ELSE [returns |-> FALSE, podcasts |-> tbl]

\* DatabaseManager.get_podcast: dict(row) or None
get_podcast(tbl, podcast_id) ==
    IF podcast_id \in DOMAIN tbl THEN [id |-> podcast_id] @@ tbl[podcast_id] ELSE None

\* the same method with the row left in the table when the insertion fails
insert_analysis_leaving_row(tbl, podcast_id, sentiment_data, tone_data, bias_data, processing_time, result_json_path, db_ok) ==
    [returns |-> IF db_ok THEN Len(tbl) + 1 ELSE NoneId,
     analyses |-> Append(tbl,
         [podcast_id             |-> podcast_id,
          sentiment_positive_pct |-> get(sentiment_data, "positive_pct", 0),
          sentiment_neutral_pct  |-> get(sentiment_data, "neutral_pct", 0),
          sentiment_negative_pct |-> get(sentiment_data, "negative_pct", 0),
          sentiment_score        |-> get(sentiment_data, "overall_score", 0),
          dominant_tone          |-> get(tone_data, "dominant_tone", "Unknown"),
          tone_calm_pct          |-> get(tone_data, "calm_pct", 0),
          tone_aggressive_pct    |-> get(tone_data, "aggressive_pct", 0),
          tone_persuasive_pct    |-> get(tone_data, "persuasive_pct", 0),
          tone_anxious_pct       |-> get(tone_data, "anxious_pct", 0),
          tone_confident_pct     |-> get(tone_data, "confident_pct", 0),
          tone_excited_pct       |-> get(tone_data, "excited_pct", 0),
          bias_score             |-> get(bias_data, "score", 0),
          bias_level             |-> get(bias_data, "level", "Unknown"),
          bias_flags_count       |-> get(bias_data, "flags_count", 0),
          processing_time        |-> processing_time,
          result_json_path       |-> result_json_path])]

\* DatabaseManager.insert_analysis: the row id, or None on any exception
insert_analysis(tbl, podcast_id, sentiment_data, tone_data, bias_data, processing_time, result_json_path, db_ok) ==
    IF db_ok
    THEN [returns |-> Len(tbl) + 1,
          analyses |-> Append(tbl,
              [podcast_id             |-> podcast_id,
               sentiment_positive_pct |-> get(sentiment_data, "positive_pct", 0),
               sentiment_neutral_pct  |-> get(sentiment_data, "neutral_pct", 0),
               sentiment_negative_pct |-> get(sentiment_data, "negative_pct", 0),
               sentiment_score        |-> get(sentiment_data, "overall_score", 0),
               dominant_tone          |-> get(tone_data, "dominant_tone", "Unknown"),
               tone_calm_pct          |-> get(tone_data, "calm_pct", 0),
               tone_aggressive_pct    |-> get(tone_data, "aggressive_pct", 0),
               tone_persuasive_pct    |-> get(tone_data, "persuasive_pct", 0),
               tone_anxious_pct       |-> get(tone_data, "anxious_pct", 0),
               tone_confident_pct     |-> get(tone_data, "confident_pct", 0),
               tone_excited_pct       |-> get(tone_data, "excited_pct", 0),
               bias_score             |-> get(bias_data, "score", 0),
               bias_level             |-> get(bias_data, "level", "Unknown"),
               bias_flags_count       |-> get(bias_data, "flags_count", 0),
               processing_time        |-> processing_time,
               result_json_path       |-> result_json_path])]
    ELSE [returns |-> NoneId, analyses |-> tbl]

\* the keys a flag may lack
OptionalFlagKeys == {"severity", "sentence", "context", "timestamp", "timestamp_seconds"}

\* the row of one flag
flag_row(analysis_id, flag) ==
    [analysis_id       |-> analysis_id,
     phrase            |-> get(flag, "phrase", ""),
     category          |-> get(flag, "category", ""),
     severity          |-> get(flag, "severity", "medium"),
     sentence          |-> get(flag, "sentence", ""),
     context           |-> get(flag, "context", ""),
     timestamp         |-> get(flag, "timestamp", "00:00"),
     timestamp_seconds |-> get(flag, "timestamp_seconds", 0)]

\* the fields read with flag[key]: a flag that lacks one raises KeyError, which the
\* except branch turns into False
insert_bias_flags_indexing(tbl, analysis_id, flags, db_ok) ==
    IF db_ok /\ \A i \in DOMAIN flags : OptionalFlagKeys \subseteq DOMAIN flags[i]
    THEN [returns |-> TRUE,
          bias_flags |-> tbl \o [i \in DOMAIN flags |-> flag_row(analysis_id, flags[i])]]
    ELSE [returns |-> FALSE, bias_flags |-> tbl]

\* DatabaseManager.insert_bias_flags: one row per flag and the commit, True; any
\* exception, False
insert_bias_flags(tbl, analysis_id, flags, db_ok) ==
    IF db_ok
    THEN [returns |-> TRUE,
          bias_flags |-> tbl \o [i \in DOMAIN flags |-> flag_row(analysis_id, flags[i])]]
    ELSE [returns |-> FALSE, bias_flags |-> tbl]

----------------------------------------------------------------------------
(* The database under a caller of its methods (test_database.py, main.py) *)

PodcastIds == {"p1", "p2"}

\* what a caller passes to insert_podcast beside the id
Uploads ==
    { [filename |-> "test_podcast.mp3", original_filename |-> "My Podcast Episode 1.mp3",
       file_size |-> 15000000, file_path |-> "/data/uploads/test_podcast.mp3",
       duration |-> 900],
      [filename |-> "talk.wav", original_filename |-> "talk.wav",
       file_size |-> 2048, file_path |-> "data/uploads/talk.wav", duration |-> 30] }

\* what a caller passes to update_podcast_status beside the id
StatusUpdates ==
    { [status |-> "processing", error_message |-> NoneStr],
      [status |-> "failed", error_message |-> "transcription failed"] }

\* the three results a caller passes to insert_analysis: complete ones, empty
\* ones, and ones that lack some keys
AnalysisData ==
    { [sentiment |-> [positive_pct |-> 600, neutral_pct |-> 300, negative_pct |-> 100,
                      overall_score |-> 50],
       tone |-> tone_of(""),
       bias |-> bias_of("Maga maga MAGA ", BiasLexicon)],
      [sentiment |-> EmptyDict, tone |-> EmptyDict, bias |-> EmptyDict],
      [sentiment |-> [positive_pct |-> 250, negative_pct |-> 750],
       tone |-> [calm_pct |-> 400, confident_pct |-> 600],
       bias |-> [score |-> 14, flags_count |-> 2]] }

\* a flag that carries every field
TimedFlag ==
    [phrase |-> "never", category |-> "absolutist", count |-> 1, severity |-> "high",
     sentence |-> "They never listen.", context |-> "said in the debate",
     timestamp |-> "01:05", timestamp_seconds |-> 65]

\* flag lists a caller passes to insert_bias_flags: those of analyze_bias, and
\* lists with a flag that carries every field
FlagLists ==
    { bias_of("Maga maga MAGA ", BiasLexicon).flags,
      bias_of("radical left socialist agenda", BiasLexicon).flags,
      <<TimedFlag>>,
      <<TimedFlag, [phrase |-> "maga", category |-> "political_right", count |-> 1]>> }

call_insert_podcast ==
    /\ db_call.made < MaxDbCalls
    /\ \E id \in PodcastIds, f \in Uploads, db_ok \in BOOLEAN :
          LET r == insert_podcast(podcasts, id, f.filename, f.original_filename,
                                  f.file_size, f.file_path, f.duration, db_ok)
          IN  /\ podcasts' = r.podcasts
              /\ db_call' = [made |-> db_call.made + 1, method |-> "insert_podcast",
                             podcast_id |-> id, upload |-> f, before |-> podcasts,
                             returned |-> r.returns]
    /\ UNCHANGED <<analyses, bias_flags, analyzer_vars, singleton_vars, app_vars, upload_vars, threads>>

call_update_podcast_status ==
    /\ db_call.made < MaxDbCalls
    /\ \E id \in PodcastIds, u \in StatusUpdates, db_ok \in BOOLEAN :
          LET r == update_podcast_status(podcasts, id, u.status, u.error_message, db_ok)
          IN  /\ podcasts' = r.podcasts
              /\ db_call' = [made |-> db_call.made + 1, method |-> "update_podcast_status",
                             podcast_id |-> id, status |-> u.status,
                             error_message |-> u.error_message, db_ok |-> db_ok,
                             before |-> podcasts, returned |-> r.returns]
    /\ UNCHANGED <<analyses, bias_flags, analyzer_vars, singleton_vars, app_vars, upload_vars, threads>>

call_get_podcast ==
    /\ db_call.made < MaxDbCalls
    /\ \E id \in PodcastIds :
          db_call' = [made |-> db_call.made + 1, method |-> "get_podcast",
                      podcast_id |-> id, returned |-> get_podcast(podcasts, id)]
    /\ UNCHANGED <<podcasts, analyses, bias_flags, analyzer_vars, singleton_vars, app_vars, upload_vars, threads>>

call_insert_analysis ==
    /\ db_call.made < MaxDbCalls
    /\ \E id \in PodcastIds, d \in AnalysisData, db_ok \in BOOLEAN :
          LET r == insert_analysis(analyses, id, d.sentiment, d.tone, d.bias,
                                   120, "data/uploads/talk.json", db_ok)
          IN  /\ analyses' = r.analyses
              /\ db_call' = [made |-> db_call.made + 1, method |-> "insert_analysis",
                             podcast_id |-> id, data |-> d, db_ok |-> db_ok,
                             before |-> analyses, returned |-> r.returns]
    /\ UNCHANGED <<podcasts, bias_flags, analyzer_vars, singleton_vars, app_vars, upload_vars, threads>>

call_insert_bias_flags ==
    /\ db_call.made < MaxDbCalls
    /\ \E id \in {NoneId, Len(analyses)}, flags \in FlagLists, db_ok \in BOOLEAN :
          LET r == insert_bias_flags(bias_flags, id, flags, db_ok)
          IN  /\ bias_flags' = r.bias_flags
              /\ db_call' = [made |-> db_call.made + 1, method |-> "insert_bias_flags",
                             analysis_id |-> id, flags |-> flags, db_ok |-> db_ok,
                             returned |-> r.returns]
    /\ UNCHANGED <<podcasts, analyses, analyzer_vars, singleton_vars, app_vars, upload_vars, threads>>

InitDb ==
    /\ AnalyzerAtRest
    /\ SingletonsAtStart
    /\ DatabaseAtStart
    /\ SessionAtStart
    /\ UploaderAtStart
    /\ ThreadsAtStart

NextDb ==
    \/ call_insert_podcast
    \/ call_update_podcast_status
    \/ call_get_podcast
    \/ call_insert_analysis
    \/ call_insert_bias_flags

SpecDb == InitDb /\ [][NextDb]_vars

----------------------------------------------------------------------------
(* The uploader component *)

MAX_FILE_SIZE_MB == 100
MAX_DURATION_SECONDS == 3600
ALLOWED_AUDIO_FORMATS == {"mp3", "wav", "m4a", "ogg", "flac"}

\* None, where the other values are durations in seconds
NoneNum == -1

\* the truth value Python gives a duration: None and 0.0 are false
truthy(duration) == duration # NoneNum /\ duration # 0

\* s.split('.')[-1]: what follows the last '.', the whole of s when it has none
RECURSIVE last_part(_)
last_part(s) ==
    IF \A i \in 1..Len(s) : SubSeq(s, i, i) # "."
    THEN s
    ELSE LET i == CHOOSE j \in 1..Len(s) : SubSeq(s, j, j) = "."
         IN  last_part(SubSeq(s, i + 1, Len(s)))

\* the same test with the extension compared as it is written
validate_audio_file_as_written(uploaded_file) ==
    IF uploaded_file = None
    THEN [is_valid |-> FALSE, error_message |-> "No file uploaded"]
    ELSE IF last_part(uploaded_file.name) \notin ALLOWED_AUDIO_FORMATS
    THEN [is_valid |-> FALSE, error_message |-> "Invalid format"]
    ELSE IF uploaded_file.size > MAX_FILE_SIZE_MB * (1024 * 1024)
    THEN [is_valid |-> FALSE, error_message |-> "File too large"]
    ELSE [is_valid |-> TRUE, error_message |-> NoneStr]

\* validate_audio_file: (is_valid, error_message). size / (1024 * 1024) is
\* exact in a double for the sizes of files, so the comparison with the limit is
\* the comparison of the sizes in bytes; the messages are cut to their heads
validate_audio_file(uploaded_file) ==
    IF uploaded_file = None
    THEN [is_valid |-> FALSE, error_message |-> "No file uploaded"]
    ELSE IF lower(last_part(uploaded_file.name)) \notin ALLOWED_AUDIO_FORMATS
    THEN [is_valid |-> FALSE, error_message |-> "Invalid format"]
    ELSE IF uploaded_file.size > MAX_FILE_SIZE_MB * (1024 * 1024)
    THEN [is_valid |-> FALSE, error_message |-> "File too large"]
    ELSE [is_valid |-> TRUE, error_message |-> NoneStr]

\* get_audio_duration: what ffprobe reports about the audio, None when ffprobe
\* fails or its output is not a number
get_audio_duration(uploaded_file) ==
    IF uploaded_file.probed THEN uploaded_file.seconds ELSE NoneNum

\* the same function with the file written before the duration is looked at
save_uploaded_file_writing_first(uploaded_file, podcast_id, dir, disk_ok) ==
    LET file_ext == lower(last_part(uploaded_file.name))
        filename == "podcast_" \o podcast_id \o "." \o file_ext
        duration == get_audio_duration(uploaded_file)
        written == dir \cup {[filename |-> filename, seconds |-> uploaded_file.seconds]}
    IN  IF ~disk_ok
        THEN [raised |-> "OSError", upload_dir |-> dir]
        ELSE IF truthy(duration) /\ duration > MAX_DURATION_SECONDS
        THEN [raised |-> "ValueError", upload_dir |-> written]
        ELSE [raised |-> NoneStr, upload_dir |-> written, podcast_id |-> podcast_id,
              file_path |-> filename, duration |-> duration]

\* save_uploaded_file: raises, or writes the file into the upload directory
\* and returns (podcast_id, file_path, duration)
save_uploaded_file(uploaded_file, podcast_id, dir, disk_ok) ==
    LET file_ext == lower(last_part(uploaded_file.name))
        filename == "podcast_" \o podcast_id \o "." \o file_ext
        duration == get_audio_duration(uploaded_file)
    IN  IF truthy(duration) /\ duration > MAX_DURATION_SECONDS
        THEN [raised |-> "ValueError", upload_dir |-> dir]
        ELSE IF ~disk_ok
        THEN [raised |-> "OSError", upload_dir |-> dir]
        ELSE [raised |-> NoneStr,
              upload_dir |-> dir \cup {[filename |-> filename,
                                        seconds |-> uploaded_file.seconds]},
              podcast_id |-> podcast_id, file_path |-> filename,
              duration |-> duration]

\* render_upload_section: None, or (uploaded_file, podcast_id, file_path,
\* duration) once a valid file is there, the button was clicked and the file
\* was saved
render_upload_section(uploaded_file, clicked, podcast_id, dir, disk_ok) ==
    IF uploaded_file = None
    THEN [returns |-> None, upload_dir |-> dir, shown |-> {}]
    ELSE LET v == validate_audio_file(uploaded_file)
             s == save_uploaded_file(uploaded_file, podcast_id, dir, disk_ok)
         IN  IF ~v.is_valid
             THEN [returns |-> None, upload_dir |-> dir, shown |-> {v.error_message}]
             ELSE IF ~clicked
             THEN [returns |-> None, upload_dir |-> dir, shown |-> {"File validated"}]
             ELSE IF s.raised # NoneStr
             THEN [returns |-> None, upload_dir |-> s.upload_dir,
                   shown |-> {"Error saving file"}]
             ELSE [returns |-> [uploaded_file |-> uploaded_file,
                                podcast_id |-> s.podcast_id,
                                file_path |-> s.file_path,
                                duration |-> s.duration],
                   upload_dir |-> s.upload_dir,
                   shown |-> {"File uploaded successfully"}]

\* the files a user may put into the uploader: names with and without an
\* allowed extension, sizes around the limit, durations around the limit, and
\* audio whose duration ffprobe can or cannot tell
FileNames == {"talk.mp3", "TALK.MP3", "a.b.Wav", "notes.txt", "mp3.txt", "flac",
              "song.m4a.", "x.ogg", "y.m4a", "z.mp4"}
FileSizes == {0, 2048, MAX_FILE_SIZE_MB * (1024 * 1024),
              MAX_FILE_SIZE_MB * (1024 * 1024) + 1}
FileSeconds == {0, 30, MAX_DURATION_SECONDS, MAX_DURATION_SECONDS + 1}
Files ==
    [name : FileNames, size : FileSizes, seconds : FileSeconds, probed : BOOLEAN]

\* str(uuid.uuid4()) of the n-th file saved
uuid4(n) == "p" \o ToString(n)

call_validate_audio_file ==
    /\ uploader.validate_audio_file = NotCalled
    /\ uploader' = [uploader EXCEPT
                      !.validate_audio_file = Returned(validate_audio_file(uploader.file))]
    /\ UNCHANGED <<upload_dir, analyzer_vars, singleton_vars, db_vars, app_vars, threads>>

call_save_uploaded_file ==
    /\ uploader.save_uploaded_file = NotCalled
    /\ uploader.file # None
    /\ \E disk_ok \in BOOLEAN :
          LET podcast_id == uuid4(Cardinality(upload_dir) + 1)
              s == save_uploaded_file(uploader.file, podcast_id, upload_dir, disk_ok)
          IN  /\ uploader' = [uploader EXCEPT !.save_uploaded_file =
                                [outcome |-> IF s.raised = NoneStr THEN "returned"
                                                                   ELSE "raised",
                                 before |-> upload_dir, value |-> s]]
              /\ upload_dir' = s.upload_dir
    /\ UNCHANGED <<analyzer_vars, singleton_vars, db_vars, app_vars, threads>>

call_render_upload_section ==
    /\ uploader.render_upload_section = NotCalled
    /\ \E clicked \in BOOLEAN, disk_ok \in BOOLEAN :
          LET podcast_id == uuid4(Cardinality(upload_dir) + 1)
              r == render_upload_section(uploader.file, clicked, podcast_id,
                                         upload_dir, disk_ok)
          IN  /\ uploader' = [uploader EXCEPT !.render_upload_section =
                                [outcome |-> "returned", before |-> upload_dir,
                                 value |-> r]]
              /\ upload_dir' = r.upload_dir
    /\ UNCHANGED <<analyzer_vars, singleton_vars, db_vars, app_vars, threads>>

InitUploader ==
    /\ \E f \in Files \cup {None} : uploader = [NoUploader EXCEPT !.file = f]
    /\ upload_dir = {}
    /\ AnalyzerAtRest
    /\ SingletonsAtStart
    /\ DatabaseAtStart
    /\ SessionAtStart
    /\ ThreadsAtStart

NextUploader ==
    \/ call_validate_audio_file
    \/ call_save_uploaded_file
    \/ call_render_upload_section

SpecUploader == InitUploader /\ [][NextUploader]_vars

----------------------------------------------------------------------------
(* main(): the script runs of one browser session after another *)

MaxUploads == 2     \* at most this many files uploaded
MaxRuns == 2        \* at most this many script runs of the analysis branch

\* transcript_result["text"] of the files uploaded
Transcripts == {"the weather is mild. ", "radical left socialist agenda"}

\* what SentimentAnalyzer.analyze_text returns
SentimentResult ==
    [positive_pct |-> 600, neutral_pct |-> 300, negative_pct |-> 100, overall_score |-> 50,
     overall_sentiment |-> "positive", positive_ratio |-> 600, neutral_ratio |-> 300,
     negative_ratio |-> 100, confidence |-> 800, sentence_count |-> 1,
     sentences |-> <<>>, timeline |-> <<>>]

\* what ToneDetector.analyze_text returns
ToneResult ==
    [dominant_tone |-> "calm", dominant_score |-> 700, confidence |-> 700,
     tone_distribution |-> [calm |-> 1000], timeline |-> <<>>]

\* the parameters of DatabaseManager.update_podcast_status
UpdateStatusParams == {"podcast_id", "status", "error_message"}

\* the keywords of the final call of update_podcast_status in main
FinalUpdateKeywords == {"podcast_id", "status", "transcript_path"}

\* a call binds when every keyword is a parameter; otherwise it raises TypeError
binds(keywords, params) == keywords \subseteq params

\* the stage has run: ok tells whether it returned or raised
logged(stage, ok) == Append(run.log, [stage |-> stage, ok |-> ok])

\* the stage raised: control is in the except branch of main
raised_in(stage) ==
    [run EXCEPT !.pc = "except", !.error = stage, !.log = logged(stage, FALSE)]

\* the files put into the uploader of main(): none, one of a format that is
\* not allowed, one at both limits, and one longer than the limit whose
\* duration ffprobe can or cannot tell
AppFiles ==
    {None,
     [name |-> "notes.txt", size |-> 2048, seconds |-> 30, probed |-> TRUE],
     [name |-> "TALK.MP3", size |-> MAX_FILE_SIZE_MB * (1024 * 1024),
      seconds |-> MAX_DURATION_SECONDS, probed |-> TRUE],
     [name |-> "x.ogg", size |-> 2048, seconds |-> MAX_DURATION_SECONDS + 1,
      probed |-> TRUE],
     [name |-> "x.ogg", size |-> 2048, seconds |-> MAX_DURATION_SECONDS + 1,
      probed |-> FALSE]}

\* what the upload meets: the button not clicked; clicked, and the file cannot
\* be written; written, and the insertion fails; all three go well
UploadConditions ==
    {[clicked |-> FALSE, disk_ok |-> TRUE, db_ok |-> TRUE],
     [clicked |-> TRUE, disk_ok |-> FALSE, db_ok |-> TRUE],
     [clicked |-> TRUE, disk_ok |-> TRUE, db_ok |-> FALSE],
     [clicked |-> TRUE, disk_ok |-> TRUE, db_ok |-> TRUE]}

\* the upload branch: the upload section is rendered; when it returns a saved
\* file, the file is remembered in the session and inserted, and the script is
\* run again (a run in which get_db() raises in the sidebar shows the exception
\* and changes nothing)
upload ==
    /\ run.pc = "idle"
    /\ "current_podcast" \notin DOMAIN session
    /\ run.uploads < MaxUploads
    /\ \E f \in AppFiles, e \in UploadConditions :
          LET db == get_instance(instances["db"], TRUE, 1)
              db_ok == e.db_ok
              upload_result == render_upload_section(f, e.clicked, uuid4(run.uploads + 1),
                                                     upload_dir, e.disk_ok)
              u == upload_result.returns
              r == insert_podcast(podcasts, u.podcast_id, u.uploaded_file.name,
                                  u.uploaded_file.name, u.uploaded_file.size,
                                  u.file_path, u.duration, db_ok)
          IN  /\ instances' = [instances EXCEPT !["db"] = db.instance]
              /\ upload_dir' = upload_result.upload_dir
              /\ IF u = None
                 THEN UNCHANGED <<session, podcasts, run>>
                 ELSE /\ session' = [current_podcast |->
                                       [id |-> u.podcast_id, path |-> u.file_path,
                                        filename |-> u.uploaded_file.name,
                                        duration |-> u.duration]]
                      /\ podcasts' = r.podcasts
                      /\ run' = [run EXCEPT !.pc = "rerun", !.uploads = @ + 1]
    /\ UNCHANGED <<uploader, analyses, bias_flags, db_call, calls, analyzer_vars, threads>>

\* a script run enters the analysis branch: after the upload, or when the user
\* clicks a button the previous run has shown
start_run ==
    /\ \/ run.pc = "rerun"
       \/ run.pc = "ended" /\ "Generate PDF Report" \in run.shown
    /\ "current_podcast" \in DOMAIN session
    /\ run.runs < MaxRuns
    /\ instances' = [instances EXCEPT !["db"] = get_instance(@, TRUE, 1).instance]
    /\ run' = [pc |-> "transcribe", uploads |-> run.uploads, runs |-> run.runs + 1,
               podcast |-> session.current_podcast, locals |-> EmptyDict,
               log |-> <<>>, shown |-> {}, error |-> "None"]
    /\ UNCHANGED <<session, upload_vars, calls, db_vars, analyzer_vars, threads>>

\* STEP 1: get_transcriber(), preprocess_audio, transcribe, save_transcript
transcribe_stage ==
    /\ run.pc = "transcribe"
    /\ \E ctor_ok \in BOOLEAN, ok \in BOOLEAN, t \in Transcripts :
          LET g == get_instance(instances["transcriber"], ctor_ok, 1)
          IN  /\ instances' = [instances EXCEPT !["transcriber"] = g.instance]
              /\ run' = IF g.raised \/ ~ok THEN raised_in("transcribe")
                        ELSE [run EXCEPT !.pc = "sentiment",
                                         !.log = logged("transcribe", TRUE),
                                         !.locals = [full_text |-> t] @@ @]
    /\ UNCHANGED <<session, upload_vars, calls, db_vars, analyzer_vars, threads>>

\* the tone stage left out
sentiment_stage_then_bias ==
    /\ run.pc = "sentiment"
    /\ \E ok \in BOOLEAN :
          run' = IF ~ok THEN raised_in("sentiment")
                 ELSE [run EXCEPT !.pc = "bias",
                                  !.log = logged("sentiment", TRUE),
                                  !.locals = [sentiment_results |-> SentimentResult] @@ @]
    /\ UNCHANGED <<session, upload_vars, singleton_vars, db_vars, analyzer_vars, threads>>

\* STEP 2: SentimentAnalyzer().analyze_text and save_results
sentiment_stage ==
    /\ run.pc = "sentiment"
    /\ \E ok \in BOOLEAN :
          run' = IF ~ok THEN raised_in("sentiment")
                 ELSE [run EXCEPT !.pc = "tone",
                                  !.log = logged("sentiment", TRUE),
                                  !.locals = [sentiment_results |-> SentimentResult] @@ @]
    /\ UNCHANGED <<session, upload_vars, singleton_vars, db_vars, analyzer_vars, threads>>

\* STEP 3: ToneDetector().analyze_text and save_results
tone_stage ==
    /\ run.pc = "tone"
    /\ \E ok \in BOOLEAN :
          run' = IF ~ok THEN raised_in("tone")
                 ELSE [run EXCEPT !.pc = "bias",
                                  !.log = logged("tone", TRUE),
                                  !.locals = [tone_results |-> ToneResult] @@ @]
    /\ UNCHANGED <<session, upload_vars, singleton_vars, db_vars, analyzer_vars, threads>>

\* STEP 4: get_analyzer().analyze_bias(full_text)
bias_stage ==
    /\ run.pc = "bias"
    /\ \E ctor_ok \in BOOLEAN :
          LET g == get_instance(instances["analyzer"], ctor_ok, 1)
          IN  /\ instances' = [instances EXCEPT !["analyzer"] = g.instance]
              /\ run' = IF g.raised THEN raised_in("bias")
                        ELSE [run EXCEPT
                                !.pc = "insert_analysis",
                                !.log = logged("bias", TRUE),
                                !.locals = [bias |-> bias_of(run.locals.full_text,
                                                             bias_lexicon)] @@ @]
    /\ UNCHANGED <<session, upload_vars, calls, db_vars, analyzer_vars, threads>>

\* STEP 5, first half: db.insert_analysis; without flags the status line already
\* reads "Analysis Complete!"
persist_analysis ==
    /\ run.pc = "insert_analysis"
    /\ \E db_ok \in BOOLEAN :
          LET l == run.locals
              r == insert_analysis(analyses, run.podcast.id, l.sentiment_results,
                                   l.tone_results, l.bias, 120, run.podcast.path, db_ok)
          IN  /\ analyses' = r.analyses
              /\ run' = [run EXCEPT
                           !.pc = IF l.bias.flags # <<>> THEN "insert_bias_flags"
                                  ELSE "render",
                           !.log = logged("insert_analysis", TRUE),
                           !.locals = [analysis_id |-> r.returns] @@ @,
                           !.shown = IF l.bias.flags # <<>> THEN @
                                     ELSE @ \cup {"Analysis Complete!"}]
    /\ UNCHANGED <<session, upload_vars, singleton_vars, podcasts, bias_flags, db_call, analyzer_vars, threads>>

\* STEP 5, second half: if bias['flags']: db.insert_bias_flags(analysis_id, flags)
persist_bias_flags ==
    /\ run.pc = "insert_bias_flags"
    /\ \E db_ok \in BOOLEAN :
          LET r == insert_bias_flags(bias_flags, run.locals.analysis_id,
                                     run.locals.bias.flags, db_ok)
          IN  /\ bias_flags' = r.bias_flags
              /\ run' = [run EXCEPT !.pc = "render",
                                    !.log = logged("insert_bias_flags", TRUE),
                                    !.shown = @ \cup {"Analysis Complete!"}]
    /\ UNCHANGED <<session, upload_vars, singleton_vars, podcasts, analyses, db_call, analyzer_vars, threads>>

\* STEP 6 and 7: the dashboard (or its fallback charts), the transcript and the
\* export buttons
render_stage ==
    /\ run.pc = "render"
    /\ \E ok \in BOOLEAN :
          run' = IF ~ok THEN raised_in("render")
                 ELSE [run EXCEPT !.pc = "final_update",
                                  !.log = logged("render", TRUE),
                                  !.shown = @ \cup {"Analysis Dashboard", "Export Report",
                                                    "Generate PDF Report"}]
    /\ UNCHANGED <<session, upload_vars, singleton_vars, db_vars, analyzer_vars, threads>>

\* the final db.update_podcast_status(podcast_id=..., status="completed",
\* transcript_path=...) and what follows it
final_update ==
    /\ run.pc = "final_update"
    /\ \E db_ok \in BOOLEAN :
          IF binds(FinalUpdateKeywords, UpdateStatusParams)
          THEN /\ podcasts' = update_podcast_status(podcasts, run.podcast.id, "completed",
                                                    NoneStr, db_ok).podcasts
               /\ run' = [run EXCEPT !.pc = "ended",
                                     !.shown = @ \cup {"Analysis Complete!",
                                                       "Analyze Another File"}]
          ELSE /\ podcasts' = podcasts
               /\ run' = [run EXCEPT !.pc = "except", !.error = "TypeError"]
    /\ UNCHANGED <<session, upload_vars, singleton_vars, analyses, bias_flags, db_call, analyzer_vars, threads>>

\* except Exception as e: st.error and update_podcast_status(id, 'failed', str(e))
handle_exception ==
    /\ run.pc = "except"
    /\ \E db_ok \in BOOLEAN :
          /\ podcasts' = update_podcast_status(podcasts, run.podcast.id, "failed",
                                               run.error, db_ok).podcasts
          /\ run' = [run EXCEPT !.pc = "ended", !.shown = @ \cup {"Analysis Failed"}]
    /\ UNCHANGED <<session, upload_vars, singleton_vars, analyses, bias_flags, db_call, analyzer_vars, threads>>

\* the page is opened anew: a new session, whose state is empty
new_session ==
    /\ run.pc = "ended"
    /\ session' = EmptyDict
    /\ run' = [NoRun EXCEPT !.uploads = run.uploads, !.runs = run.runs]
    /\ UNCHANGED <<upload_vars, singleton_vars, db_vars, analyzer_vars, threads>>

InitApp ==
    /\ AnalyzerAtRest
    /\ SingletonsAtStart
    /\ DatabaseAtStart
    /\ SessionAtStart
    /\ UploaderAtStart
    /\ ThreadsAtStart

NextApp ==
    \/ upload
    \/ start_run
    \/ transcribe_stage
    \/ sentiment_stage
    \/ tone_stage
    \/ bias_stage
    \/ persist_analysis
    \/ persist_bias_flags
    \/ render_stage
    \/ final_update
    \/ handle_exception
    \/ new_session

SpecApp == InitApp /\ [][NextApp]_vars

----------------------------------------------------------------------------
(* What the claims speak of, stated on the text itself *)

\* the (category, phrase) pairs of the lexicon
LexiconPairs ==
    UNION { {<<bias_lexicon[k].category, bias_lexicon[k].phrases[i]>> :
                i \in DOMAIN bias_lexicon[k].phrases} : k \in DOMAIN bias_lexicon }

\* where phrase p occurs in lt
StartsOf(lt, p) == {i \in 1..(Len(lt) - Len(p) + 1) : SubSeq(lt, i, i + Len(p) - 1) = p}

\* no two occurrences of length d that start in S share a character
Apart(S, d) == \A i, j \in S : i < j => j - i >= d

\* the most occurrences of length d, among those starting in S, of which no two
\* share a character
MaxApart(S, d) ==
    CHOOSE n \in 0..Cardinality(S) :
        /\ \E T \in SUBSET S : Apart(T, d) /\ Cardinality(T) = n
        /\ \A T \in SUBSET S : Apart(T, d) => Cardinality(T) <= n

\* the number of occurrences of p in lt, occurrences counted being disjoint (in
\* "everyoneveryone" the phrase "everyone" occurs once)
Occurrences(lt, p) ==
    LET S == StartsOf(lt, p)
        Clash == {i \in S : \E j \in S : j # i /\ j - i < Len(p) /\ i - j < Len(p)}
    IN  Cardinality(S \ Clash) + MaxApart(Clash, Len(p))

RECURSIVE TotalOver(_, _)
\* the sum over the pairs in P of the occurrences of the pair's phrase in lt
TotalOver(lt, P) ==
    IF P = {} THEN 0
    ELSE LET x == CHOOSE y \in P : TRUE
         IN  Occurrences(lt, x[2]) + TotalOver(lt, P \ {x})

\* T: the occurrences of lexicon phrases in t, letter case ignored
Total(t) == TotalOver(lower(t), LexiconPairs)

BiasReturned == bias.outcome = "returned"

----------------------------------------------------------------------------
(* C1: whenever analyze_bias has returned for a text, the score it returned is
   min(10 * T, 100), T being the sum over all lexicon phrases of all categories of
   the number of occurrences of the phrase in the text, letter case ignored. *)
C1_ScoreIsCappedTenPerOccurrence ==
    BiasReturned =>
        LET T == Total(text)
        IN  bias.value.score = (IF 10 * T < 100 THEN 10 * T ELSE 100)

\* 'radical left' once, 'socialist agenda' once and no other phrase: score 20
C1_Witness ==
    /\ text = "radical left socialist agenda"
    /\ BiasReturned
    /\ bias.value.score = 20

(* C2: the level analyze_bias returns is decided by the score it returns: Low iff
   score < 20, Moderate iff 20 <= score < 50, High iff score >= 50, and it is never
   anything else. *)
C2_LevelIsThresholdOfScore ==
    BiasReturned =>
        LET v == bias.value
        IN  /\ v.level \in {"Low", "Moderate", "High"}
            /\ (v.level = "Low") <=> (v.score < 20)
            /\ (v.level = "Moderate") <=> (20 <= v.score /\ v.score < 50)
            /\ (v.level = "High") <=> (v.score >= 50)

\* a score of exactly 20 was Moderate and a score of exactly 50 is High
C2_Witness ==
    /\ earlier.bias.outcome = "returned"
    /\ earlier.bias.value.score = 20
    /\ earlier.bias.value.level = "Moderate"
    /\ BiasReturned
    /\ bias.value.score = 50
    /\ bias.value.level = "High"

\* the indices of the flags that carry phrase p under category c
FlagsFor(flags, c, p) ==
    {i \in DOMAIN flags : flags[i].phrase = p /\ flags[i].category = c}

(* C3: analyze_bias emits exactly one flag for each (category, phrase) pair of the
   lexicon that occurs in the text, carrying the phrase, the category and the total
   number of occurrences, no flag for a pair that does not occur, no flag for
   anything else, and flags_count is the number of flags. *)
C3_OneFlagPerPhraseFound ==
    BiasReturned =>
        LET v == bias.value
            lt == lower(text)
        IN  /\ v.flags_count = Len(v.flags)
            /\ \A i \in DOMAIN v.flags :
                  <<v.flags[i].category, v.flags[i].phrase>> \in LexiconPairs
            /\ \A x \in LexiconPairs :
                  LET n == Occurrences(lt, x[2])
                      F == FlagsFor(v.flags, x[1], x[2])
                  IN  IF n = 0 THEN F = {}
                      ELSE /\ Cardinality(F) = 1
                           /\ \A i \in F : v.flags[i].count = n

\* 'maga' three times: one flag, with count 3
C3_Witness ==
    /\ text = "Maga maga MAGA "
    /\ BiasReturned
    /\ bias.value.flags = <<[phrase |-> "maga", category |-> "political_right", count |-> 3]>>
    /\ bias.value.flags_count = 1
    /\ bias.value.score = 30

\* phrase p stands at position i of t, letter case ignored, whatever precedes and
\* follows it
MatchesAt(t, p, i) ==
    /\ i + Len(p) - 1 <= Len(t)
    /\ \A k \in 1..Len(p) : lower_char(SubSeq(t, i + k - 1, i + k - 1)) = SubSeq(p, k, k)

MatchesOf(t, p) == {i \in 1..Len(t) : MatchesAt(t, p, i)}

(* C4: matching is case-insensitive substring matching without word boundaries: a
   pair of the lexicon is flagged exactly when its phrase stands somewhere in the
   text, letter case ignored, inside a longer word or not, and the flag counts the
   places where it stands (those that share no character). *)
C4_SubstringMatchIgnoringCase ==
    BiasReturned =>
        \A x \in LexiconPairs :
            LET M == MatchesOf(text, x[2])
                F == FlagsFor(bias.value.flags, x[1], x[2])
            IN  /\ (M # {}) <=> (F # {})
                /\ \A i \in F :
                      IF Apart(M, Len(x[2]))
                      THEN bias.value.flags[i].count = Cardinality(M)
                      ELSE bias.value.flags[i].count = MaxApart(M, Len(x[2]))

\* 'maga' inside 'magazine' and 'never' inside 'Whenever' are both counted
C4_Witness ==
    /\ text = "Whenever magazine "
    /\ BiasReturned
    /\ bias.value.flags =
          << [phrase |-> "maga", category |-> "political_right", count |-> 1],
             [phrase |-> "never", category |-> "absolutist", count |-> 1] >>
    /\ bias.value.score = 20

\* no phrase of the lexicon stands anywhere in t
NoPhraseIn(t) == \A x \in LexiconPairs : MatchesOf(t, x[2]) = {}

(* C5: for a text in which no lexicon phrase occurs, the empty text included,
   analyze_bias returns score 0, level Low, flags_count 0 and no flags, and its
   outcome is never an error. *)
C5_NothingFoundIsLowZero ==
    (bias # NotCalled /\ NoPhraseIn(text)) =>
        bias = Returned([score |-> 0, level |-> "Low", flags_count |-> 0, flags |-> <<>>])

\* a text without any phrase was analysed, and now the empty text
C5_Witness ==
    /\ earlier.text = "the weather is mild. the weather is mild. "
    /\ earlier.bias.outcome = "returned"
    /\ earlier.bias.value.score = 0
    /\ text = ""
    /\ BiasReturned
    /\ bias.value.flags = <<>>

\* text b holds every lexicon phrase at least as many times as text a
HoldsAsMany(b, a) ==
    LET lb == lower(b)
        la == lower(a)
    IN  \A x \in LexiconPairs : Occurrences(lb, x[2]) >= Occurrences(la, x[2])

(* C6: the score never decreases with the occurrences: of two texts analysed, one
   holding every lexicon phrase at least as many times as the other has a score at
   least as high; the score never exceeds 100 and is exactly 100 once the text
   holds 10 occurrences or more. *)
C6_ScoreMonotonicAndCapped ==
    BiasReturned =>
        /\ bias.value.score <= 100
        /\ Total(text) >= 10 => bias.value.score = 100
        /\ earlier.bias.outcome = "returned" =>
              /\ HoldsAsMany(text, earlier.text) =>
                    bias.value.score >= earlier.bias.value.score
              /\ HoldsAsMany(earlier.text, text) =>
                    earlier.bias.value.score >= bias.value.score

\* ten occurrences scored exactly 100, and five of them score 50
C6_Witness ==
    /\ earlier.text = "never Never whenever never NEVER never Never whenever never NEVER "
    /\ earlier.bias.outcome = "returned"
    /\ earlier.bias.value.score = 100
    /\ text = "never Never whenever never NEVER "
    /\ BiasReturned
    /\ bias.value.score = 50
    /\ HoldsAsMany(earlier.text, text)

SentimentReturned == sentiment.outcome = "returned"

SentimentKeys == {"positive_pct", "neutral_pct", "negative_pct", "overall_score"}

(* C7: when the text yields zero sentences (the empty text), analyze_sentiment
   returns positive_pct = 0, neutral_pct = 0, negative_pct = 0 and
   overall_score = 0, and has made no call of the classifier. *)
C7_ZeroSentencesGiveZeros ==
    (SentimentReturned /\ doc_sents = <<>>) =>
        /\ sentiment.value =
              [positive_pct |-> 0, neutral_pct |-> 0, negative_pct |-> 0, overall_score |-> 0]
        /\ sentiment.invoked = 0

\* analyze_sentiment has returned for the empty text
C7_Witness ==
    /\ text = ""
    /\ doc_sents = <<>>
    /\ SentimentReturned
    /\ DOMAIN sentiment.value = SentimentKeys

(* C8: for the empty text the tone analysis returns dominant_tone = "calm" with a
   confidence field that is present and 0. *)
C8_EmptyTextToneIsCalm ==
    (tone.outcome = "returned" /\ text = "") =>
        /\ tone.value.dominant_tone = "calm"
        /\ "confidence" \in DOMAIN tone.value
        /\ tone.value.confidence = 0

\* the classifier succeeds on every sentence analyze_sentiment passes to it
AllClassified ==
    \A i \in 1..Len(doc_sents) : i <= SentenceLimit => doc_sents[i].ok

(* C9: for a non-empty text on which classification succeeds, the three
   percentages analyze_sentiment returns, each rounded to one decimal, sum to 100
   within 0.1, and overall_score lies in [-1, 1]. *)
C9_PercentagesSumToHundred ==
    (SentimentReturned /\ text # "" /\ AllClassified) =>
        /\ DOMAIN sentiment.value = SentimentKeys
        /\ LET v == sentiment.value
               total == v.positive_pct + v.neutral_pct + v.negative_pct
           IN  /\ 999 <= total /\ total <= 1001
               /\ -100 <= v.overall_score /\ v.overall_score <= 100
               /\ v.positive_pct >= 0 /\ v.neutral_pct >= 0 /\ v.negative_pct >= 0

\* three sentences whose rounded percentages sum to 100.1
C9_Witness ==
    /\ Len(doc_sents) = 3
    /\ AllClassified
    /\ SentimentReturned
    /\ DOMAIN sentiment.value = SentimentKeys
    /\ sentiment.value.positive_pct + sentiment.value.neutral_pct
          + sentiment.value.negative_pct = 1001

(* C10: a classifier failure on one sentence is caught for that sentence only:
   the result is the aggregate of the sentences on which the classifier succeeded,
   and the all-zero default only when it failed on every one of them. *)
C10_FailedSentenceIsExcluded ==
    (SentimentReturned /\ doc_sents # <<>>) =>
        LET analysed == take(doc_sents, SentenceLimit)
            classified == SelectSeq(analysed, LAMBDA o : o.ok)
        IN  IF classified = <<>>
            THEN sentiment.value =
                    [positive_pct |-> 0, neutral_pct |-> 0, negative_pct |-> 0,
                     overall_score |-> 0]
            ELSE sentiment.value = aggregate(classified)

(* C11: whatever happens inside it, analyze_sentiment hands its caller a result
   that holds the keys positive_pct, neutral_pct, negative_pct and overall_score;
   a missing key never stands for 'no data'. *)
C11_SentimentAlwaysHasKeys ==
    sentiment # NotCalled =>
        /\ sentiment.outcome = "returned"
        /\ SentimentKeys \subseteq DOMAIN sentiment.value

\* the number of sentences analyze_sentiment is to classify
Analysed == IF Len(doc_sents) < 50 THEN Len(doc_sents) ELSE 50

RECURSIVE ProbSum(_, _)
\* the k-th probabilities of the first n sentences of the text, summed
ProbSum(k, n) == IF n = 0 THEN 0 ELSE ProbSum(k, n - 1) + doc_sents[n].probs[k]

\* p is num / den rounded to a nearest integer
NearestTo(p, num, den) ==
    LET d == p * den - num IN 2 * d <= den /\ -2 * d <= den

(* C12: analyze_sentiment classifies the first min(n, 50) sentences and no other,
   and the percentages and the overall score it returns are the arithmetic mean of
   the distributions of exactly those sentences (to the decimals kept), whatever
   the sentences after the 50th are and however many of them there are. *)
C12_MeanOfFirstFifty ==
    (SentimentReturned /\ doc_sents # <<>> /\ AllClassified) =>
        /\ DOMAIN sentiment.value = SentimentKeys
        /\ sentiment.invoked = Analysed
        /\ LET v == sentiment.value
               den == Analysed * Scale
           IN  /\ NearestTo(v.negative_pct, 1000 * ProbSum(1, Analysed), den)
               /\ NearestTo(v.neutral_pct, 1000 * ProbSum(2, Analysed), den)
               /\ NearestTo(v.positive_pct, 1000 * ProbSum(3, Analysed), den)
               /\ NearestTo(v.overall_score,
                            100 * (ProbSum(3, Analysed) - ProbSum(1, Analysed)), den)

\* 52 sentences, the 49th and 50th positive, the 51st one on which the classifier
\* would raise, the 52nd negative: 50 calls, and 4 % positive
C12_Witness ==
    /\ Len(doc_sents) = 52
    /\ doc_sents[49] = Yields(<<0, 0, Scale>>)
    /\ doc_sents[50] = Yields(<<0, 0, Scale>>)
    /\ doc_sents[51] = Raises
    /\ doc_sents[52] = Yields(<<Scale, 0, 0>>)
    /\ SentimentReturned
    /\ sentiment.invoked = 50
    /\ sentiment.value =
          [positive_pct |-> 40, neutral_pct |-> 960, negative_pct |-> 0, overall_score |-> 4]

\* the closed set of tone categories
ToneCategories == {"calm", "aggressive", "persuasive", "anxious", "confident", "excited"}

(* C13: for every input the dominant_tone of the tone result is one of calm,
   aggressive, persuasive, anxious, confident, excited, and the tone percentages
   of the result sum to 100. *)
C13_ToneInClosedSetSumsToHundred ==
    tone.outcome = "returned" =>
        /\ tone.value.dominant_tone \in ToneCategories
        /\ tone.value.calm_pct + tone.value.excited_pct + tone.value.aggressive_pct = 1000

(* C14: the analysis is deterministic and leaves the analyzer as it was: of two
   texts analysed one after the other on the same analyzer, after any number of
   earlier analyses, identical texts get identical analyze_bias results, the order
   of the flags included, and identical analyze_tone results; the lexicon is the
   one the analyzer was built with after every call. *)
C14_SameTextSameResult ==
    /\ bias_lexicon = BiasLexicon
    /\ (earlier.text = text /\ earlier.bias.outcome = "returned") =>
          /\ BiasReturned => bias = earlier.bias
          /\ tone.outcome = "returned" => tone = earlier.tone

\* the same text analysed twice on the same analyzer, each time with its three
\* occurrences of 'maga' flagged
C14_Witness ==
    /\ earlier.text = "Maga maga MAGA "
    /\ text = "Maga maga MAGA "
    /\ earlier.bias.outcome = "returned"
    /\ BiasReturned
    /\ bias.value.flags = <<[phrase |-> "maga", category |-> "political_right", count |-> 3]>>
    /\ bias = earlier.bias
    /\ tone.outcome = "returned"
    /\ tone = earlier.tone

(* C15: in any sequence of calls of get_analyzer, likewise of get_transcriber and
   of get_db, the constructor never runs again once it has succeeded, so it
   succeeds at most once, and every call that returns hands out the one cached
   instance; a call in which the constructor raises leaves the cached instance
   unset, and as long as it is unset every call runs the constructor again. *)
C15_SingletonBuiltOnce ==
    \A k \in Kinds :
        LET c == calls[k] IN
        /\ c.reconstructed = 0
        /\ c.handed \subseteq {instances[k]}
        /\ 0 \notin c.handed
        /\ c.latest = "raised" => instances[k] = 0
        /\ c.latest = "returned" => instances[k] # 0
        /\ instances[k] = 0 => c.constructed = c.made

\* get_analyzer called three times: the constructor raised, then succeeded, then
\* was not run; get_db has been called as well
C15_Witness ==
    /\ calls["analyzer"] =
          [made |-> 3, constructed |-> 2, reconstructed |-> 0, handed |-> {2},
           latest |-> "returned"]
    /\ instances["analyzer"] = 2
    /\ calls["db"].latest = "raised"
    /\ instances["db"] = 0
    /\ calls["transcriber"].made = 2
    /\ calls["transcriber"].constructed = 1

\* the rows the latest insert_bias_flags call has added
RowsAdded ==
    SubSeq(bias_flags, Len(bias_flags) - Len(db_call.flags) + 1, Len(bias_flags))

(* C18: insert_bias_flags writes one row per flag, in which a field the flag lacks
   has its default: timestamp "00:00", timestamp_seconds 0.0, severity 'medium',
   sentence and context empty, and a field the flag carries has the flag's value;
   the flags of analyze_bias, which carry phrase, category and count only, are
   written with exactly these defaults, and the call returns True whenever the
   database carries out the insertions, whatever fields are missing. *)
C18_MissingFlagFieldsGetDefaults ==
    db_call.method = "insert_bias_flags" =>
        /\ db_call.db_ok => db_call.returned
        /\ db_call.returned =>
              /\ Len(bias_flags) >= Len(db_call.flags)
              /\ \A i \in DOMAIN db_call.flags :
                    LET flag == db_call.flags[i]
                        row == RowsAdded[i]
                        written(key, default) ==
                            row[key] = IF key \in DOMAIN flag THEN flag[key] ELSE default
                    IN  /\ row.analysis_id = db_call.analysis_id
                        /\ row.phrase = flag.phrase
                        /\ row.category = flag.category
                        /\ written("timestamp", "00:00")
                        /\ written("timestamp_seconds", 0)
                        /\ written("severity", "medium")
                        /\ written("sentence", "")
                        /\ written("context", "")
                        /\ DOMAIN flag = {"phrase", "category", "count"} =>
                              /\ row.timestamp = "00:00"
                              /\ row.timestamp_seconds = 0
                              /\ row.severity = "medium"
                              /\ row.sentence = ""
                              /\ row.context = ""

\* the two flags analyze_bias gives for 'radical left socialist agenda' written
\* for analysis 1, after a flag that carries its own timestamp
C18_Witness ==
    /\ db_call.method = "insert_bias_flags"
    /\ db_call.returned
    /\ db_call.analysis_id = 1
    /\ db_call.flags = bias_of("radical left socialist agenda", BiasLexicon).flags
    /\ Len(bias_flags) = 3
    /\ bias_flags[1].timestamp = "01:05"
    /\ bias_flags[2] =
          [analysis_id |-> 1, phrase |-> "radical left", category |-> "political_left",
           severity |-> "medium", sentence |-> "", context |-> "",
           timestamp |-> "00:00", timestamp_seconds |-> 0]
    /\ bias_flags[3].phrase = "socialist agenda"

\* the fields of a podcast the caller of insert_podcast passes
UploadFields == {"filename", "original_filename", "file_size", "file_path", "duration"}

(* C19: once insert_podcast(id, ...) has returned True the record of id holds the
   filename, original_filename, file_size, file_path and duration passed and the
   status 'uploaded', and get_podcast(id) returns the record of id; get_podcast of
   an id that was never inserted returns None; insert_podcast with an id that
   already exists returns False and leaves every record as it was. *)
C19_InsertThenGetRoundTrip ==
    /\ db_call.method = "insert_podcast" =>
          /\ db_call.returned =>
                /\ db_call.podcast_id \notin DOMAIN db_call.before
                /\ db_call.podcast_id \in DOMAIN podcasts
                /\ \A k \in UploadFields :
                      podcasts[db_call.podcast_id][k] = db_call.upload[k]
                /\ podcasts[db_call.podcast_id].status = "uploaded"
                /\ \A id \in DOMAIN db_call.before : podcasts[id] = db_call.before[id]
          /\ db_call.podcast_id \in DOMAIN db_call.before =>
                /\ ~db_call.returned
                /\ podcasts = db_call.before
    /\ db_call.method = "get_podcast" =>
          IF db_call.podcast_id \in DOMAIN podcasts
          THEN /\ db_call.returned # None
               /\ db_call.returned.id = db_call.podcast_id
               /\ \A k \in DOMAIN podcasts[db_call.podcast_id] :
                     db_call.returned[k] = podcasts[db_call.podcast_id][k]
          ELSE db_call.returned = None

\* the test's podcast is stored, a second insert_podcast with its id and other
\* data has returned False, and the record is still the first one
C19_Witness ==
    /\ db_call.method = "insert_podcast"
    /\ db_call.podcast_id = "p1"
    /\ db_call.upload.filename = "talk.wav"
    /\ ~db_call.returned
    /\ "p1" \in DOMAIN db_call.before
    /\ DOMAIN podcasts = {"p1"}
    /\ podcasts["p1"] =
          [filename |-> "test_podcast.mp3", original_filename |-> "My Podcast Episode 1.mp3",
           file_size |-> 15000000, file_path |-> "/data/uploads/test_podcast.mp3",
           duration |-> 900, status |-> "uploaded"]

\* the stages of an analysis run in the order of main
StageOrder ==
    <<"transcribe", "sentiment", "tone", "bias", "insert_analysis", "insert_bias_flags",
      "render">>

\* the same without the insertion of flags, which a result without flags skips
StageOrderNoFlags == SelectSeq(StageOrder, LAMBDA st : st # "insert_bias_flags")

\* the stages that have run so far in this script run, in the order they ran
StagesRun == [i \in DOMAIN run.log |-> run.log[i].stage]

\* s is the beginning of t
IsPrefix(sq, t) == Len(sq) <= Len(t) /\ sq = SubSeq(t, 1, Len(sq))

\* the results of the four analysis stages
AnalysisResults == {"full_text", "sentiment_results", "tone_results", "bias"}

(* C16: within one analysis run the stages run in the order transcribe, sentiment,
   tone, bias, insert_analysis, insert_bias_flags (skipped when there is no flag),
   render, each one only after the one before it has returned, and a row is added
   to the analyses only when the run holds the results of all four analysis
   stages. *)
C16_StagesRunInFixedOrder ==
    /\ [](/\ \/ IsPrefix(StagesRun, StageOrder)
             \/ IsPrefix(StagesRun, StageOrderNoFlags)
          /\ \A i \in DOMAIN run.log : i < Len(run.log) => run.log[i].ok
          /\ "analysis_id" \in DOMAIN run.locals =>
                AnalysisResults \subseteq DOMAIN run.locals)
    /\ [][analyses' # analyses =>
            /\ AnalysisResults \subseteq DOMAIN run.locals
            /\ StagesRun = <<"transcribe", "sentiment", "tone", "bias">>]_vars

\* a run with flags has gone through all seven stages
C16_Witness ==
    /\ StagesRun = StageOrder
    /\ \A i \in DOMAIN run.log : run.log[i].ok
    /\ Len(analyses) = 1
    /\ Len(bias_flags) = 2
    /\ run.locals.analysis_id = 1

\* the stages of this run that have returned
StagesReturned == {run.log[i].stage : i \in {j \in DOMAIN run.log : run.log[j].ok}}

(* C17: a failure of the sentiment stage, or of the tone stage, does not block the
   rest of the run: the run still goes through the bias stage, the insertion of
   the analysis and the dashboard and export sections before it ends. *)
C17_FailedSignalDoesNotBlock ==
    (run.pc = "ended" /\ run.error \in {"sentiment", "tone"}) =>
        /\ {"bias", "insert_analysis", "render"} \subseteq StagesReturned
        /\ {"Analysis Dashboard", "Export Report"} \subseteq run.shown

\* the six stages the claim names, the insertion of flags being part of persist
StagesOfARun == {"transcribe", "sentiment", "tone", "bias", "insert_analysis", "render"}

(* C20: when every stage of an analysis run has succeeded (transcribe, sentiment,
   tone, bias, persist, render), the run ends with the stored status of the
   podcast equal to 'completed' and with 'Analysis Complete' and the button
   'Analyze Another File' shown; the status is not 'failed' after a run in which
   no stage failed. *)
C20_SuccessfulRunEndsCompleted ==
    (/\ run.pc = "ended"
     /\ StagesOfARun \subseteq StagesReturned
     /\ run.podcast.id \in DOMAIN podcasts) =>
        /\ podcasts[run.podcast.id].status = "completed"
        /\ "Analyze Another File" \in run.shown
        /\ "Analysis Failed" \notin run.shown

----------------------------------------------------------------------------
(* The uploader's checks *)

\* the text of a file name after its last '.', the whole name when it has none
Extension(name) ==
    LET dots == {0} \cup {i \in 1..Len(name) : SubSeq(name, i, i) = "."}
        last == CHOOSE i \in dots : \A j \in dots : j <= i
    IN  SubSeq(name, last + 1, Len(name))

\* the largest size accepted, in bytes
SizeLimit == MAX_FILE_SIZE_MB * 1024 * 1024

\* C21: validate_audio_file returns (False, message) for None, for a file whose
\* lower-cased extension is not an allowed format and for a file of more than
\* 100 * 1024 * 1024 bytes, and (True, None) for every other file
C21_ValidateAudioFile ==
    uploader.validate_audio_file.outcome = "returned" =>
        LET f == uploader.file
            v == uploader.validate_audio_file.value
            rejected == \/ f = None
                        \/ lower(Extension(f.name)) \notin ALLOWED_AUDIO_FORMATS
                        \/ f.size > SizeLimit
        IN  /\ v.is_valid = ~rejected
            /\ (v.error_message = NoneStr) = ~rejected

\* a file of exactly 100 MB with an upper-case extension is valid
C21_Witness ==
    /\ uploader.validate_audio_file.outcome = "returned"
    /\ uploader.file # None
    /\ uploader.file.name = "TALK.MP3"
    /\ uploader.file.size = SizeLimit
    /\ uploader.validate_audio_file.value = [is_valid |-> TRUE, error_message |-> NoneStr]

\* C22: no audio longer than MAX_DURATION_SECONDS is accepted: no podcast file
\* of such an audio is written to the upload directory, and the session's
\* current podcast is never such an audio
C22_NoOverlongAudioAccepted ==
    /\ \A file \in upload_dir : file.seconds <= MAX_DURATION_SECONDS
    /\ "current_podcast" \in DOMAIN session =>
          \A file \in upload_dir :
              file.filename = session.current_podcast.path =>
                  file.seconds <= MAX_DURATION_SECONDS

----------------------------------------------------------------------------
(* The analysis rows *)

\* the value stored for a key of a result: the result's, or the default of a
\* result without the key
Stored(result, key, default) ==
    IF key \in DOMAIN result THEN result[key] ELSE default

\* C23: insert_analysis returns the id of the new row when the insertion
\* succeeds and None when it fails; the new row holds the values of the three
\* results, with 0 for a missing number and 'Unknown' for a missing
\* dominant_tone or level; a failed insertion adds no row
C23_InsertAnalysis ==
    db_call.method = "insert_analysis" =>
        LET d == db_call.data
            s == d.sentiment
            t == d.tone
            b == d.bias
        IN  IF db_call.db_ok
            THEN /\ db_call.returned # NoneId
                 /\ db_call.returned = Len(analyses)
                 /\ Len(analyses) = Len(db_call.before) + 1
                 /\ SubSeq(analyses, 1, Len(db_call.before)) = db_call.before
                 /\ LET row == analyses[db_call.returned]
                    IN  /\ row.podcast_id = db_call.podcast_id
                        /\ row.sentiment_positive_pct = Stored(s, "positive_pct", 0)
                        /\ row.sentiment_neutral_pct = Stored(s, "neutral_pct", 0)
                        /\ row.sentiment_negative_pct = Stored(s, "negative_pct", 0)
                        /\ row.sentiment_score = Stored(s, "overall_score", 0)
                        /\ row.dominant_tone = Stored(t, "dominant_tone", "Unknown")
                        /\ row.tone_calm_pct = Stored(t, "calm_pct", 0)
                        /\ row.tone_aggressive_pct = Stored(t, "aggressive_pct", 0)
                        /\ row.tone_persuasive_pct = Stored(t, "persuasive_pct", 0)
                        /\ row.tone_anxious_pct = Stored(t, "anxious_pct", 0)
                        /\ row.tone_confident_pct = Stored(t, "confident_pct", 0)
                        /\ row.tone_excited_pct = Stored(t, "excited_pct", 0)
                        /\ row.bias_score = Stored(b, "score", 0)
                        /\ row.bias_level = Stored(b, "level", "Unknown")
                        /\ row.bias_flags_count = Stored(b, "flags_count", 0)
            ELSE /\ db_call.returned = NoneId
                 /\ analyses = db_call.before

\* the third call has inserted the second row, from results that lack keys
C23_Witness ==
    /\ db_call.method = "insert_analysis"
    /\ db_call.made = 3
    /\ db_call.returned = 2
    /\ db_call.data.tone = [calm_pct |-> 400, confident_pct |-> 600]
    /\ analyses[2].dominant_tone = "Unknown"
    /\ analyses[2].sentiment_score = 0
    /\ analyses[2].tone_confident_pct = 600

\* C25: update_podcast_status(id, s, e) that meets no database error returns
\* True; it sets status to s and error_message to e (None when omitted) in the
\* podcast with that id, changes no other column and no other podcast, and
\* leaves the table as it is when no podcast has the id
C25_UpdateStatusFrame ==
    (db_call.method = "update_podcast_status" /\ db_call.db_ok) =>
        LET id == db_call.podcast_id
            before == db_call.before
        IN  /\ db_call.returned = TRUE
            /\ DOMAIN podcasts = DOMAIN before
            /\ \A other \in DOMAIN before \ {id} : podcasts[other] = before[other]
            /\ id \in DOMAIN before =>
                  /\ podcasts[id].status = db_call.status
                  /\ podcasts[id].error_message = db_call.error_message
                  /\ \A column \in DOMAIN podcasts[id] \ {"status", "error_message"} :
                        /\ column \in DOMAIN before[id]
                        /\ podcasts[id][column] = before[id][column]
            /\ id \notin DOMAIN before => podcasts = before

\* an update without a message has cleared the message of a failed podcast
C25_Witness ==
    /\ db_call.method = "update_podcast_status"
    /\ db_call.db_ok
    /\ db_call.podcast_id \in DOMAIN db_call.before
    /\ db_call.before[db_call.podcast_id].status = "failed"
    /\ db_call.before[db_call.podcast_id].error_message = "transcription failed"
    /\ db_call.error_message = NoneStr
    /\ podcasts[db_call.podcast_id].status = "processing"
    /\ podcasts[db_call.podcast_id].error_message = NoneStr

----------------------------------------------------------------------------
(* The runs of main() and the tables *)

\* C24: when a stage of an analysis run raises, no later stage of the run is
\* executed, and the run ends with the status of its podcast 'failed' and the
\* error_message the text of the exception
C24_RaisedRunEndsFailed ==
    /\ \A i \in DOMAIN run.log : ~run.log[i].ok => i = Len(run.log)
    /\ (run.pc = "ended" /\ run.error # "None") =>
          /\ run.podcast.id \in DOMAIN podcasts
          /\ podcasts[run.podcast.id].status = "failed"
          /\ podcasts[run.podcast.id].error_message = run.error

\* C27: over the script runs of a session every uploaded podcast gets at most
\* one row of analyses, and its pipeline is executed at most once
C27_OneAnalysisPerPodcast ==
    /\ \A i, j \in DOMAIN analyses :
          analyses[i].podcast_id = analyses[j].podcast_id => i = j
    /\ run.runs <= run.uploads

\* C28: insert_bias_flags is called only with the id that insert_analysis has
\* returned for a row of this run, never with None; no flag row has the id None
\* or the id of an analysis that does not exist
C28_FlagsOnlyForInsertedAnalysis ==
    /\ "insert_bias_flags" \in {run.log[i].stage : i \in DOMAIN run.log} =>
          /\ run.locals.analysis_id # NoneId
          /\ run.locals.analysis_id \in DOMAIN analyses
          /\ analyses[run.locals.analysis_id].podcast_id = run.podcast.id
    /\ \A i \in DOMAIN bias_flags :
          /\ bias_flags[i].analysis_id # NoneId
          /\ bias_flags[i].analysis_id \in DOMAIN analyses

\* C29: the session's current podcast, the podcast of an analysis run and the
\* podcast of every analysis row have a row in the podcasts table
C29_CurrentPodcastHasRow ==
    /\ "current_podcast" \in DOMAIN session =>
          session.current_podcast.id \in DOMAIN podcasts
    /\ run.pc \notin {"idle", "rerun"} => run.podcast.id \in DOMAIN podcasts
    /\ \A i \in DOMAIN analyses : analyses[i].podcast_id \in DOMAIN podcasts

\* C30: when an analysis run has finished, with success or with failure, the
\* user is offered 'Analyze Another File', the button that removes
\* current_podcast from the session and brings the upload section back
C30_AnotherFileOffered ==
    (run.pc = "ended" /\ "current_podcast" \in DOMAIN session) =>
        "Analyze Another File" \in run.shown

----------------------------------------------------------------------------
(* The getters under concurrent callers *)

\* C26: when session threads call the same getter at the same time and for the
\* first time, one instance is constructed, and every caller that returns
\* receives that instance
C26_OneInstanceUnderConcurrency ==
    \A k \in Kinds :
        LET callers == {t \in Threads : threads[t].kind = k}
        IN  /\ Cardinality({t \in callers : threads[t].built # 0}) <= 1
            /\ \A t, u \in callers :
                  threads[t].pc = "returned" /\ threads[u].pc = "returned"
                      => threads[t].result = threads[u].result

====
